---- MODULE Spec2Model ----
(***************************************************************************)
(* A model of tabd, the TPM2 access broker daemon (src/src/tabd.c).        *)
(*                                                                         *)
(* Threads of the daemon:                                                  *)
(*   - the main thread (main): spawns the initialization thread, owns the  *)
(*     bus name, runs the GMainLoop and tears the pipeline down;           *)
(*   - the initialization thread (init_thread_func);                       *)
(*   - the D-Bus handlers on_handle_create_connection, on_handle_cancel    *)
(*     and on_handle_set_locality, which the GMainLoop dispatches on the   *)
(*     main thread, one invocation at a time;                              *)
(*   - the three pipeline threads CommandSource, Tab and ResponseSink,     *)
(*     whose code is outside tabd.c and is modelled from the               *)
(*     specification;                                                      *)
(*   - the Unix signal handler (signal_handler), asynchronous.             *)
(***************************************************************************)
EXTENDS Integers, Sequences, FiniteSets

\* ------------------------------------------------------------------ bounds
\* Handler invocations the main loop dispatches in one daemon lifetime.
MaxRequests == 2
\* Commands the clients write on their command endpoints in one lifetime.
MaxCmds == 2
\* Unix signals delivered in one lifetime.
MaxSignals == 1
\* Width in bits of the scaled-down rand48 state (48 in libc).
RandBits == 4
\* Largest locality value a client passes (255 in the code, a guint8).
MaxLocality == 1

\* --------------------------------------------------------------- constants
RandMod == 2 ^ RandBits
\* lrand48_r returns the state without its low bits (17 of 48 in libc; here
\* 2 of RandBits), so the ids are the values of the remaining high bits.
Ids == 0 .. ((RandMod \div 4) - 1)
\* values of the long read from the entropy source
Seeds == 0 .. 1
Localities == 0 .. MaxLocality
Stages == {"command_source", "tab", "response_sink"}
NoInv == [op |-> "none", pc |-> "idle", id |-> 0, loc |-> 0, early |-> FALSE,
          seeded |-> FALSE]
NoReply == [op |-> "none", id |-> 0, rc |-> "none"]

VARIABLES
    daemon,        \* "up", or how the process ended
    mainpc,        \* position of main()
    loopRunning,   \* g_main_loop_is_running (gmain_data.loop)
    nameOwned,     \* g_bus_own_name called, g_bus_unown_name not yet
    exported,      \* skeleton exported with its three handlers connected
    initpc,        \* position of init_thread_func
    init_mutex,    \* owner of gmain_data.init_mutex: "free", "init", "handler"
    sigInstalled,  \* signal (SIGINT/SIGTERM, signal_handler) has run
    stage,         \* stage[s]: "null", "created", "started", "cancelled", "joined"
    links,         \* source_add_sink links wired, as <<source, sink>> pairs
    rand_data,     \* gmain_data.rand_data: the rand48 state
    seedSrc,       \* "unseeded", "full" or "short": what srand48_r was fed
    manager,       \* gmain_data.manager: "null", "live" or "freed"
    registry,      \* ids of the sessions in the SessionManager
    locality,      \* locality[id]: the locality field of session id
    inv,           \* the handler invocation the main loop is running; early:
                   \* it was dispatched before init_thread_func had returned
    nReq,          \* handler invocations dispatched so far
    replied,       \* the CreateConnection replies, in order: the id each
                   \* carries and whether it was drawn from a seeded rand_data
    open,          \* ids replied by CreateConnection whose endpoints are open
    lastReply,     \* outcome of the last Cancel / SetLocality invocation
    tabQ,          \* commands queued from CommandSource to Tab
    active,        \* <<cmd>> being executed on the TPM transport, or <<>>
    sinkQ,         \* responses queued from Tab to ResponseSink
    sends,         \* transport sends so far: [cmd, loc]
    delivered,     \* responses written to clients so far
    tctiCancels,   \* number of transport cancel() calls so far
    wakeups,       \* number of writes to the wakeup endpoint of the CommandSource
    nCmd,          \* commands accepted so far
    nSig           \* signals delivered so far

mainvars == <<mainpc, loopRunning, nameOwned, exported>>
initvars == <<initpc, init_mutex, sigInstalled>>
stagevars == <<stage, links>>
randvars == <<rand_data, seedSrc>>
mgrvars == <<manager, registry, locality>>
hvars == <<inv, nReq>>
replyvars == <<replied, open, lastReply>>
pipevars == <<tabQ, active, sinkQ, sends, delivered, tctiCancels, wakeups, nCmd>>
vars == <<daemon, mainvars, initvars, stagevars, randvars, mgrvars, hvars,
          replyvars, pipevars, nSig>>

Range(s) == {s[i] : i \in 1 .. Len(s)}

\* ------------------------------------------------------------------- rand48
\* srand48_r: the seed fills the high bits of the state, a constant the low
\* ones (16 bits in libc, one fewer than lrand48_r drops; here 1).
Srand48(seed) == ((seed * 2) + 1) % RandMod
\* one step of the linear congruential generator, within the state's width
Drand48Iterate(x) == ((5 * x) + 3) % RandMod
\* lrand48_r: iterate, then return the high bits of the new state
Lrand48Value(x) == Drand48Iterate(x) \div 4

Init ==
    /\ daemon = "up"
    /\ mainpc = "spawn"
    /\ loopRunning = FALSE
    /\ nameOwned = FALSE
    /\ exported = FALSE
    /\ initpc = "none"
    /\ init_mutex = "free"
    /\ sigInstalled = FALSE
    /\ stage = [s \in Stages |-> "null"]
    /\ links = {}
    /\ rand_data = 0
    /\ seedSrc = "unseeded"
    /\ manager = "null"
    /\ registry = {}
    /\ locality = [i \in Ids |-> 0]
    /\ inv = NoInv
    /\ nReq = 0
    /\ replied = <<>>
    /\ open = {}
    /\ lastReply = NoReply
    /\ tabQ = <<>>
    /\ active = <<>>
    /\ sinkQ = <<>>
    /\ sends = <<>>
    /\ delivered = <<>>
    /\ tctiCancels = 0
    /\ wakeups = 0
    /\ nCmd = 0
    /\ nSig = 0

\* g_error: log and abort the process.
GError(how) == daemon' = how

\* ---------------------------------------------------------- init_thread_func
InitStep(from, to) ==
    /\ daemon = "up"
    /\ initpc = from
    /\ initpc' = to

InitLock ==
    /\ InitStep("lock", "signal")
    /\ init_mutex = "free"
    /\ init_mutex' = "init"
    /\ UNCHANGED <<daemon, mainvars, sigInstalled, stagevars, randvars, mgrvars,
                   hvars, replyvars, pipevars, nSig>>

InitSignal ==
    /\ InitStep("signal", "seed")
    /\ sigInstalled' = TRUE
    /\ UNCHANGED <<daemon, mainvars, init_mutex, stagevars, randvars, mgrvars,
                   hvars, replyvars, pipevars, nSig>>

\* seed_rand_data: open, read, srand48_r.  read_ret is compared with -1 only,
\* so a short read (end of file included) seeds from whatever rand_seed holds.
seed_rand_data(outcome, seed) ==
    IF outcome \in {"open_failed", "read_failed"}
    THEN [ret |-> 1, rand |-> rand_data, src |-> seedSrc]
    ELSE [ret |-> 0, rand |-> Srand48(seed), src |-> outcome]

InitSeed ==
    /\ daemon = "up"
    /\ initpc = "seed"
    /\ \E outcome \in {"open_failed", "read_failed", "full", "short"},
          seed \in Seeds :
          LET r == seed_rand_data(outcome, seed) IN
          /\ rand_data' = r.rand
          /\ seedSrc' = r.src
          /\ IF r.ret # 0
             THEN GError("abort_init") /\ UNCHANGED initpc
             ELSE initpc' = "manager" /\ UNCHANGED daemon
    /\ UNCHANGED <<mainvars, init_mutex, sigInstalled, stagevars, mgrvars,
                   hvars, replyvars, pipevars, nSig>>

InitManager ==
    /\ daemon = "up"
    /\ initpc = "manager"
    /\ \E ok \in BOOLEAN :
          IF ok
          THEN manager' = "live" /\ initpc' = "tcti" /\ UNCHANGED daemon
          ELSE GError("abort_init") /\ UNCHANGED <<manager, initpc>>
    /\ UNCHANGED <<mainvars, init_mutex, sigInstalled, stagevars, randvars,
                   registry, locality, hvars, replyvars, pipevars, nSig>>

InitTcti ==
    /\ daemon = "up"
    /\ initpc = "tcti"
    /\ \E ok \in BOOLEAN :
          IF ok
          THEN initpc' = "create" /\ UNCHANGED daemon
          ELSE GError("abort_init") /\ UNCHANGED initpc
    /\ UNCHANGED <<mainvars, init_mutex, sigInstalled, stagevars, randvars,
                   mgrvars, hvars, replyvars, pipevars, nSig>>

InitCreate ==
    /\ InitStep("create", "wire")
    /\ stage' = [s \in Stages |-> "created"]
    /\ UNCHANGED <<daemon, mainvars, init_mutex, sigInstalled, links, randvars,
                   mgrvars, hvars, replyvars, pipevars, nSig>>

\* source_add_sink (source, sink): the sink the source hands its output to
source_add_sink(source, sink) == {<<source, sink>>}

\* InitWire with the second source_add_sink call left out
InitWireCommandSourceOnly ==
    /\ InitStep("wire", "start_command_source")
    /\ links' = links \cup source_add_sink("command_source", "tab")
    /\ UNCHANGED <<daemon, mainvars, init_mutex, sigInstalled, stage, randvars,
                   mgrvars, hvars, replyvars, pipevars, nSig>>

InitWire ==
    /\ InitStep("wire", "start_command_source")
    /\ links' = (links \cup source_add_sink("command_source", "tab"))
                    \cup source_add_sink("tab", "response_sink")
    /\ UNCHANGED <<daemon, mainvars, init_mutex, sigInstalled, stage, randvars,
                   mgrvars, hvars, replyvars, pipevars, nSig>>

\* thread_start (s) followed by its g_error check
InitThreadStart(s, from, to) ==
    /\ daemon = "up"
    /\ initpc = from
    /\ \E ok \in BOOLEAN :
          IF ok
          THEN /\ stage' = [stage EXCEPT ![s] = "started"]
               /\ initpc' = to
               /\ UNCHANGED daemon
          ELSE GError("abort_init") /\ UNCHANGED <<stage, initpc>>
    /\ UNCHANGED <<mainvars, init_mutex, sigInstalled, links, randvars,
                   mgrvars, hvars, replyvars, pipevars, nSig>>

\* the first thread_start given the Tab in place of the CommandSource
InitStartTabFirst ==
    InitThreadStart("tab", "start_command_source", "start_tab")

InitStartCommandSource ==
    InitThreadStart("command_source", "start_command_source", "start_tab")

InitStartTab ==
    InitThreadStart("tab", "start_tab", "start_response_sink")

InitStartResponseSink ==
    InitThreadStart("response_sink", "start_response_sink", "unlock")

InitUnlock ==
    /\ InitStep("unlock", "done")
    /\ init_mutex' = "free"
    /\ UNCHANGED <<daemon, mainvars, sigInstalled, stagevars, randvars, mgrvars,
                   hvars, replyvars, pipevars, nSig>>

InitThread ==
    \/ InitLock
    \/ InitSignal
    \/ InitSeed
    \/ InitManager
    \/ InitTcti
    \/ InitCreate
    \/ InitWire
    \/ InitStartCommandSource
    \/ InitStartTab
    \/ InitStartResponseSink
    \/ InitUnlock

\* ------------------------------------------------------------------- main
\* g_thread_new (TABD_INIT_THREAD_NAME, init_thread_func, &gmain_data)
MainSpawn ==
    /\ daemon = "up"
    /\ mainpc = "spawn"
    /\ mainpc' = "own_name"
    /\ initpc' = "lock"
    /\ UNCHANGED <<daemon, loopRunning, nameOwned, exported, init_mutex,
                   sigInstalled, stagevars, randvars, mgrvars, hvars,
                   replyvars, pipevars, nSig>>

\* g_bus_own_name: the callbacks run later, from the main loop
MainOwnName ==
    /\ daemon = "up"
    /\ mainpc = "own_name"
    /\ mainpc' = "run"
    /\ nameOwned' = TRUE
    /\ UNCHANGED <<daemon, loopRunning, exported, initvars, stagevars,
                   randvars, mgrvars, hvars, replyvars, pipevars, nSig>>

\* g_main_loop_run entered: the loop is running from here on
MainLoopRun ==
    /\ daemon = "up"
    /\ mainpc = "run"
    /\ mainpc' = "loop"
    /\ loopRunning' = TRUE
    /\ UNCHANGED <<daemon, nameOwned, exported, initvars, stagevars, randvars,
                   mgrvars, hvars, replyvars, pipevars, nSig>>

\* main_loop_quit: g_main_loop_quit only for a loop that is running
main_loop_quit == IF loopRunning THEN FALSE ELSE loopRunning

\* on_name_acquired, dispatched by the main loop: connect the three handlers
\* and export the skeleton
OnNameAcquired ==
    /\ daemon = "up"
    /\ mainpc = "loop"
    /\ loopRunning
    /\ inv.op = "none"
    /\ nameOwned
    /\ ~exported
    /\ exported' = TRUE
    /\ UNCHANGED <<daemon, mainpc, loopRunning, nameOwned, initvars, stagevars,
                   randvars, mgrvars, hvars, replyvars, pipevars, nSig>>

\* on_name_lost, dispatched by the main loop: main_loop_quit (data->loop)
OnNameLost ==
    /\ daemon = "up"
    /\ mainpc = "loop"
    /\ loopRunning
    /\ inv.op = "none"
    /\ nameOwned
    /\ loopRunning' = main_loop_quit
    /\ UNCHANGED <<daemon, mainpc, nameOwned, exported, initvars, stagevars,
                   randvars, mgrvars, hvars, replyvars, pipevars, nSig>>

\* signal_handler: asynchronous; before signal () has run, SIGINT and SIGTERM
\* have their default action and end the process
SignalHandler ==
    /\ daemon = "up"
    /\ mainpc # "spawn"
    /\ nSig < MaxSignals
    /\ nSig' = nSig + 1
    /\ IF sigInstalled
       THEN loopRunning' = main_loop_quit /\ UNCHANGED daemon
       ELSE daemon' = "killed" /\ UNCHANGED loopRunning
    /\ UNCHANGED <<mainpc, nameOwned, exported, initvars, stagevars, randvars,
                   mgrvars, hvars, replyvars, pipevars>>

\* g_main_loop_run returns once the loop is no longer running and the handler
\* it dispatched has returned
MainLoopDone ==
    /\ daemon = "up"
    /\ mainpc = "loop"
    /\ ~loopRunning
    /\ inv.op = "none"
    /\ mainpc' = "join_init"
    /\ UNCHANGED <<daemon, loopRunning, nameOwned, exported, initvars,
                   stagevars, randvars, mgrvars, hvars, replyvars, pipevars,
                   nSig>>

\* main going on to the teardown without the g_thread_join (init_thread)
MainSkipJoinInit ==
    /\ daemon = "up"
    /\ mainpc = "join_init"
    /\ mainpc' = "unown"
    /\ UNCHANGED <<daemon, loopRunning, nameOwned, exported, initvars,
                   stagevars, randvars, mgrvars, hvars, replyvars, pipevars,
                   nSig>>

\* g_thread_join (init_thread): blocks until init_thread_func has returned
MainJoinInit ==
    /\ daemon = "up"
    /\ mainpc = "join_init"
    /\ initpc = "done"
    /\ mainpc' = "unown"
    /\ UNCHANGED <<daemon, loopRunning, nameOwned, exported, initvars,
                   stagevars, randvars, mgrvars, hvars, replyvars, pipevars,
                   nSig>>

\* g_bus_unown_name, then g_object_unref (skeleton)
MainUnownName ==
    /\ daemon = "up"
    /\ mainpc = "unown"
    /\ mainpc' = "cancel_command_source"
    /\ nameOwned' = FALSE
    /\ exported' = FALSE
    /\ UNCHANGED <<daemon, loopRunning, initvars, stagevars, randvars, mgrvars,
                   hvars, replyvars, pipevars, nSig>>

\* thread_cleanup, first half: thread_cancel (thread)
ThreadCleanupCancel(s, from, to) ==
    /\ daemon = "up"
    /\ mainpc = from
    /\ mainpc' = to
    /\ stage' = [stage EXCEPT ![s] = "cancelled"]
    /\ UNCHANGED <<daemon, loopRunning, nameOwned, exported, initvars, links,
                   randvars, mgrvars, hvars, replyvars, pipevars, nSig>>

\* thread_cleanup with the thread_join left out: main moves on while the
\* thread is only cancelled.
ThreadCleanupNoJoin(s, from, to) ==
    /\ daemon = "up"
    /\ mainpc = from
    /\ stage[s] = "cancelled"
    /\ mainpc' = to
    /\ UNCHANGED <<daemon, loopRunning, nameOwned, exported, initvars,
                   stagevars, randvars, mgrvars, hvars, replyvars, pipevars,
                   nSig>>

\* thread_cleanup, second half: thread_join (thread), g_object_unref (thread)
ThreadCleanupJoin(s, from, to) ==
    /\ daemon = "up"
    /\ mainpc = from
    /\ stage[s] = "cancelled"
    /\ mainpc' = to
    /\ stage' = [stage EXCEPT ![s] = "joined"]
    /\ UNCHANGED <<daemon, loopRunning, nameOwned, exported, initvars, links,
                   randvars, mgrvars, hvars, replyvars, pipevars, nSig>>

MainCancelCommandSource ==
    ThreadCleanupCancel("command_source", "cancel_command_source",
                        "join_command_source")

MainJoinCommandSource ==
    ThreadCleanupJoin("command_source", "join_command_source", "cancel_tab")

MainCancelTab ==
    ThreadCleanupCancel("tab", "cancel_tab", "join_tab")

MainJoinTab ==
    ThreadCleanupJoin("tab", "join_tab", "cancel_response_sink")

MainCancelResponseSink ==
    ThreadCleanupCancel("response_sink", "cancel_response_sink",
                        "join_response_sink")

MainJoinResponseSink ==
    ThreadCleanupJoin("response_sink", "join_response_sink", "unref_manager")

\* g_object_unref (gmain_data.manager), then return 0
MainUnrefManager ==
    /\ daemon = "up"
    /\ mainpc = "unref_manager"
    /\ mainpc' = "returned"
    /\ manager' = "freed"
    /\ registry' = {}
    /\ daemon' = "exited"
    /\ UNCHANGED <<loopRunning, nameOwned, exported, initvars, stagevars,
                   randvars, locality, hvars, replyvars, pipevars, nSig>>

MainThread ==
    \/ MainSpawn
    \/ MainOwnName
    \/ MainLoopRun
    \/ OnNameAcquired
    \/ OnNameLost
    \/ MainLoopDone
    \/ MainJoinInit
    \/ MainUnownName
    \/ MainCancelCommandSource
    \/ MainJoinCommandSource
    \/ MainCancelTab
    \/ MainJoinTab
    \/ MainCancelResponseSink
    \/ MainJoinResponseSink
    \/ MainUnrefManager

\* ------------------------------------------------------- SessionManager
\* session_manager_insert: 0, or non-zero for an id that is already there
session_manager_insert(id) == IF id \in registry THEN 1 ELSE 0

\* session_manager_lookup_id: the session, or NULL
session_manager_lookup_id(id) == IF id \in registry THEN "session" ELSE "NULL"

\* --------------------------------------------------------------- handlers
\* The main loop dispatches one method call to its handler.
Dispatch(op, id, loc) ==
    /\ daemon = "up"
    /\ mainpc = "loop"
    /\ loopRunning
    /\ exported
    /\ inv.op = "none"
    /\ nReq < MaxRequests
    /\ nReq' = nReq + 1
    /\ inv' = [op |-> op, pc |-> "lock", id |-> id, loc |-> loc,
               early |-> initpc # "done", seeded |-> FALSE]
    /\ UNCHANGED <<daemon, mainvars, initvars, stagevars, randvars, mgrvars,
                   replyvars, pipevars, nSig>>

DispatchCreateConnection == Dispatch("create", 0, 0)

\* The ids a client passes: those of the sessions it was given or that are in
\* the registry, and one id that is neither (every such id is handled alike).
RequestIds ==
    LET known == registry \cup open
        unknown == Ids \ known
    IN  known \cup {i \in unknown : \A j \in unknown : i <= j}

DispatchCancel == \E id \in RequestIds : Dispatch("cancel", id, 0)

DispatchSetLocality ==
    \E id \in RequestIds, loc \in Localities :
        Dispatch("set_locality", id, loc)

\* where a handler continues after the gate
AfterGate(op) == IF op = "create" THEN "rand" ELSE "lookup"

\* g_mutex_lock (&data->init_mutex)
HandlerLock ==
    /\ daemon = "up"
    /\ inv.pc = "lock"
    /\ init_mutex = "free"
    /\ init_mutex' = "handler"
    /\ inv' = [inv EXCEPT !.pc = "unlock"]
    /\ UNCHANGED <<daemon, mainvars, initpc, sigInstalled, stagevars, randvars,
                   mgrvars, nReq, replyvars, pipevars, nSig>>

\* a handler that goes on to its body without the g_mutex_unlock
HandlerKeepsGate ==
    /\ daemon = "up"
    /\ inv.pc = "unlock"
    /\ inv' = [inv EXCEPT !.pc = AfterGate(inv.op)]
    /\ UNCHANGED <<daemon, mainvars, initvars, stagevars, randvars,
                   mgrvars, nReq, replyvars, pipevars, nSig>>

\* g_mutex_unlock (&data->init_mutex)
HandlerUnlock ==
    /\ daemon = "up"
    /\ inv.pc = "unlock"
    /\ init_mutex' = "free"
    /\ inv' = [inv EXCEPT !.pc = AfterGate(inv.op)]
    /\ UNCHANGED <<daemon, mainvars, initpc, sigInstalled, stagevars, randvars,
                   mgrvars, nReq, replyvars, pipevars, nSig>>

\* on_handle_create_connection: lrand48_r, session_data_new and its g_error
CreateNewSession ==
    /\ daemon = "up"
    /\ inv.op = "create"
    /\ inv.pc = "rand"
    /\ rand_data' = Drand48Iterate(rand_data)
    /\ \E allocated \in BOOLEAN :
          IF allocated
          THEN /\ inv' = [inv EXCEPT !.pc = "reply",
                                     !.id = Lrand48Value(rand_data),
                                     !.seeded = (seedSrc # "unseeded")]
               /\ UNCHANGED daemon
          ELSE GError("abort_handler") /\ UNCHANGED inv
    /\ UNCHANGED <<mainvars, initvars, stagevars, seedSrc, mgrvars, nReq,
                   replyvars, pipevars, nSig>>

\* on_handle_create_connection: the reply with the two client fds and the id
CreateReply ==
    /\ daemon = "up"
    /\ inv.op = "create"
    /\ inv.pc = "reply"
    /\ replied' = Append(replied, [id |-> inv.id, seeded |-> inv.seeded])
    /\ open' = open \cup {inv.id}
    /\ inv' = [inv EXCEPT !.pc = "insert"]
    /\ UNCHANGED <<daemon, mainvars, initvars, stagevars, randvars, mgrvars,
                   nReq, lastReply, pipevars, nSig>>

\* on_handle_create_connection: session_manager_insert, its g_error, return.
\* With data->manager still NULL the call is undefined: the process takes a
\* fault, or the callee notices and the g_error follows.
CreateInsert ==
    /\ daemon = "up"
    /\ inv.op = "create"
    /\ inv.pc = "insert"
    /\ IF manager # "live"
       THEN /\ \E how \in {"fault", "abort_handler"} : GError(how)
            /\ UNCHANGED <<registry, locality, inv>>
       ELSE IF session_manager_insert(inv.id) # 0
       THEN /\ GError("abort_handler")
            /\ UNCHANGED <<registry, locality, inv>>
       ELSE /\ registry' = registry \cup {inv.id}
            /\ locality' = [locality EXCEPT ![inv.id] = 0]
            /\ inv' = NoInv
            /\ UNCHANGED daemon
    /\ UNCHANGED <<mainvars, initvars, stagevars, randvars, manager, nReq,
                   replyvars, pipevars, nSig>>

\* Outcome with a slip in the reply code: a found session is answered with a
\* failure code.
OutcomeWrongCode(session) ==
    [op |-> inv.op, id |-> inv.id,
     rc |-> IF session = "NULL" THEN "unhandled" ELSE "nothing_to_cancel"]

\* What a Cancel / SetLocality handler leaves behind: rc is the code of the
\* reply it sent, "unhandled" when it returned FALSE without sending any.
Outcome(session) ==
    [op |-> inv.op, id |-> inv.id,
     rc |-> IF session = "NULL" THEN "unhandled" ELSE "SUCCESS"]

\* session_manager_lookup_id as the handlers call it: with data->manager still
\* NULL the call is undefined (a fault, or NULL comes back)
Lookup(id) ==
    IF manager = "live" THEN {session_manager_lookup_id(id)}
    ELSE {"fault", "NULL"}

\* on_handle_cancel that, for a session it finds, calls the transport's cancel
\* from the handler
CancelBodyOnTransport ==
    /\ daemon = "up"
    /\ inv.op = "cancel"
    /\ inv.pc = "lookup"
    /\ \E session \in Lookup(inv.id) :
          IF session = "fault"
          THEN GError("fault") /\ UNCHANGED <<inv, lastReply, tctiCancels>>
          ELSE /\ lastReply' = Outcome(session)
               /\ inv' = NoInv
               /\ tctiCancels' = IF session = "NULL" THEN tctiCancels
                                 ELSE tctiCancels + 1
               /\ UNCHANGED daemon
    /\ UNCHANGED <<mainvars, initvars, stagevars, randvars, mgrvars, nReq,
                   replied, open, tabQ, active, sinkQ, sends, delivered,
                   wakeups, nCmd, nSig>>

\* on_handle_cancel after the gate: lookup, then the unconditional reply
CancelBody ==
    /\ daemon = "up"
    /\ inv.op = "cancel"
    /\ inv.pc = "lookup"
    /\ \E session \in Lookup(inv.id) :
          IF session = "fault"
          THEN GError("fault") /\ UNCHANGED <<inv, lastReply>>
          ELSE /\ lastReply' = Outcome(session)
               /\ inv' = NoInv
               /\ UNCHANGED daemon
    /\ UNCHANGED <<mainvars, initvars, stagevars, randvars, mgrvars, nReq,
                   replied, open, pipevars, nSig>>

\* on_handle_set_locality that takes the session out of the registry when it
\* looks it up
SetLocalityBodyRemoves ==
    /\ daemon = "up"
    /\ inv.op = "set_locality"
    /\ inv.pc = "lookup"
    /\ \E session \in Lookup(inv.id) :
          IF session = "fault"
          THEN GError("fault") /\ UNCHANGED <<inv, lastReply, registry>>
          ELSE /\ lastReply' = Outcome(session)
               /\ inv' = NoInv
               /\ registry' = registry \ {inv.id}
               /\ UNCHANGED daemon
    /\ UNCHANGED <<mainvars, initvars, stagevars, randvars, manager, locality,
                   nReq, replied, open, pipevars, nSig>>

\* on_handle_set_locality after the gate: lookup, then the unconditional reply
SetLocalityBody ==
    /\ daemon = "up"
    /\ inv.op = "set_locality"
    /\ inv.pc = "lookup"
    /\ \E session \in Lookup(inv.id) :
          IF session = "fault"
          THEN GError("fault") /\ UNCHANGED <<inv, lastReply>>
          ELSE /\ lastReply' = Outcome(session)
               /\ inv' = NoInv
               /\ UNCHANGED daemon
    /\ UNCHANGED <<mainvars, initvars, stagevars, randvars, mgrvars, nReq,
                   replied, open, pipevars, nSig>>

Handlers ==
    \/ DispatchCreateConnection
    \/ DispatchCancel
    \/ DispatchSetLocality
    \/ HandlerLock
    \/ HandlerUnlock
    \/ CreateNewSession
    \/ CreateReply
    \/ CreateInsert
    \/ CancelBody
    \/ SetLocalityBody

\* ---------------------------------------------------------------- pipeline
\* the source hands what it produces to the sink: a source_add_sink link
Linked(source, sink) == <<source, sink>> \in links

\* CommandSource: a command read from the command endpoint of session id is
\* tagged with the id and queued for the Tab.
CommandSourceAccept(id) ==
    /\ daemon = "up"
    /\ stage["command_source"] = "started"
    /\ id \in registry
    /\ nCmd < MaxCmds
    /\ nCmd' = nCmd + 1
    /\ tabQ' = IF Linked("command_source", "tab")
               THEN Append(tabQ, [sid |-> id, seq |-> nCmd + 1])
               ELSE tabQ
    /\ UNCHANGED <<daemon, mainvars, initvars, stagevars, randvars, mgrvars,
                   hvars, replyvars, active, sinkQ, sends, delivered,
                   tctiCancels, wakeups, nSig>>

\* CommandSource: end of file on the command endpoint of session id; the
\* session leaves the registry and its endpoints are closed.
CommandSourceClose(id) ==
    /\ daemon = "up"
    /\ stage["command_source"] = "started"
    /\ id \in registry
    /\ registry' = registry \ {id}
    /\ open' = open \ {id}
    /\ UNCHANGED <<daemon, mainvars, initvars, stagevars, randvars, manager,
                   locality, hvars, replied, lastReply, pipevars, nSig>>

\* Tab: take the next command and send it on the transport with the
\* session's locality.
TabSend ==
    /\ daemon = "up"
    /\ stage["tab"] = "started"
    /\ active = <<>>
    /\ tabQ # <<>>
    /\ active' = <<Head(tabQ)>>
    /\ tabQ' = Tail(tabQ)
    /\ sends' = Append(sends, [cmd |-> Head(tabQ),
                               loc |-> locality[Head(tabQ).sid]])
    /\ UNCHANGED <<daemon, mainvars, initvars, stagevars, randvars, mgrvars,
                   hvars, replyvars, sinkQ, delivered, tctiCancels, wakeups, nCmd, nSig>>

\* Tab: receive the response and queue it for the ResponseSink.
TabReceive ==
    /\ daemon = "up"
    /\ stage["tab"] = "started"
    /\ active # <<>>
    /\ sinkQ' = IF Linked("tab", "response_sink")
                THEN Append(sinkQ, active[1])
                ELSE sinkQ
    /\ active' = <<>>
    /\ UNCHANGED <<daemon, mainvars, initvars, stagevars, randvars, mgrvars,
                   hvars, replyvars, tabQ, sends, delivered, tctiCancels, wakeups, nCmd,
                   nSig>>

\* ResponseSink: write the next response to its session's response endpoint.
ResponseSinkDeliver ==
    /\ daemon = "up"
    /\ stage["response_sink"] = "started"
    /\ sinkQ # <<>>
    /\ delivered' = Append(delivered, Head(sinkQ))
    /\ sinkQ' = Tail(sinkQ)
    /\ UNCHANGED <<daemon, mainvars, initvars, stagevars, randvars, mgrvars,
                   hvars, replyvars, tabQ, active, sends, tctiCancels, wakeups, nCmd,
                   nSig>>

Pipeline ==
    \/ \E id \in Ids : CommandSourceAccept(id)
    \/ \E id \in Ids : CommandSourceClose(id)
    \/ TabSend
    \/ TabReceive
    \/ ResponseSinkDeliver

Next == InitThread \/ MainThread \/ SignalHandler \/ Handlers \/ Pipeline

Spec == Init /\ [][Next]_vars

\* ------------------------------------------------------------------ claims
\* the step on which a Cancel / SetLocality handler finishes (replies or
\* returns FALSE)
Finishes(op) == inv.op = op /\ inv.pc = "lookup" /\ inv'.pc = "idle"

\* the same for a handler that was dispatched after initialization had ended
Answers(op) == Finishes(op) /\ ~ inv.early

\* session id has a command queued for the Tab / executing on the transport
Queued(id) == \E i \in DOMAIN tabQ : tabQ[i].sid = id
Executing(id) == active # <<>> /\ active[1].sid = id

\* a stage that main has cancelled (and perhaps joined)
TornDown(s) == stage[s] \in {"cancelled", "joined"}

\* C1: no handler is past the gate, where it reads the PRNG state and the
\* registry, before the initialization thread has built the registry, wired
\* and started the pipeline and released init_mutex; the gate is closed from
\* the start.
C1_GateClosedUntilInitDone ==
    inv.pc \in {"rand", "reply", "insert", "lookup"} => initpc = "done"

\* C2: a CreateConnection dispatched while initialization is still running,
\* initialization having succeeded, completes: the handler never ends the
\* process instead of returning.
C2_EarlyCreateCompletes ==
    ~ (/\ inv.op = "create"
       /\ inv.early
       /\ initpc = "done"
       /\ daemon \in {"abort_handler", "fault"})

C4_NothingToCancel ==
    [][(/\ Answers("cancel")
        /\ inv.id \in registry
        /\ ~ Queued(inv.id)
        /\ ~ Executing(inv.id))
       => lastReply'.rc = "nothing_to_cancel"]_vars

\* C5: Cancel (id) and SetLocality (id, l) with an id that is not in the
\* registry are answered with an unknown_session failure and leave the
\* registry and every locality as they were.
C5_UnknownSessionReply ==
    [][(/\ \/ Answers("cancel")
           \/ Answers("set_locality")
        /\ inv.id \notin registry)
       => (/\ lastReply'.rc = "unknown_session"
           /\ registry' = registry
           /\ locality' = locality)]_vars

\* C6: when SetLocality (id, l) replies SUCCESS the locality field of session
\* id holds l afterwards.
C6_LocalityIsSet ==
    [][(Answers("set_locality") /\ lastReply'.rc = "SUCCESS")
       => locality'[inv.id] = inv.loc]_vars

\* C7: a Cancel (id) answered while a command of the session is outstanding
\* acts on it: a command still queued for the Tab is dropped from the queue,
\* for a command executing on the TPM the transport's cancel is invoked.
C7_CancelActsOnCommand ==
    [][(Answers("cancel") /\ lastReply'.rc = "SUCCESS")
       => (/\ Queued(inv.id)
              => \A i \in DOMAIN tabQ' : tabQ'[i].sid # inv.id
           /\ Executing(inv.id) => tctiCancels' = tctiCancels + 1)]_vars

\* C8: shutdown order.  Once any stage is cancelled the control surface is
\* down (name released, skeleton gone, no handler running, so no insert);
\* the Tab is cancelled only after the CommandSource is joined, the
\* ResponseSink only after the Tab is joined, and the registry is released
\* only after all three are joined.
C8_ShutdownOrder ==
    /\ (\E s \in Stages : TornDown(s))
          => (inv.op = "none" /\ ~ exported /\ ~ nameOwned /\ ~ loopRunning)
    /\ TornDown("tab") => stage["command_source"] = "joined"
    /\ TornDown("response_sink") => stage["tab"] = "joined"
    /\ manager = "freed" => \A s \in Stages : stage[s] = "joined"

\* C8 witness: a daemon that served a session has been torn down completely.
C8_Witness ==
    /\ daemon = "exited"
    /\ manager = "freed"
    /\ replied # <<>>
    /\ \A s \in Stages : stage[s] = "joined"

\* C9: no control-plane handler ends the process; a CreateConnection that
\* cannot allocate its session or whose insert is rejected is answered with a
\* failure and the daemon carries on.  (Stated for handlers dispatched after
\* initialization.)
C9_HandlersNeverAbort ==
    ~ (daemon = "abort_handler" /\ ~ inv.early)

\* C10: no two CreateConnection replies of one daemon lifetime carry the same
\* session id.  (Stated for ids drawn from the seeded PRNG.)
C10_RepliedIdsUnique ==
    \A i, j \in DOMAIN replied :
        (i # j /\ replied[i].seeded /\ replied[j].seeded)
            => replied[i].id # replied[j].id

\* a request has got past the gate: its handler is at work on the PRNG or the
\* registry, or has already replied
Served ==
    \/ inv.pc \in {"rand", "reply", "insert", "lookup"}
    \/ replied # <<>>
    \/ lastReply.op # "none"

\* C11: when initialization fails (seed_rand_data, session_manager_new,
\* tcti_initialize or a thread_start reports failure) the daemon ends with a
\* failure, init_mutex is still held by the initialization thread, and no
\* request has been served by the half-built daemon.
C11_InitFailureServesNothing ==
    daemon = "abort_init" => (init_mutex = "init" /\ ~ Served)

\* the step on which on_handle_create_connection returns TRUE: its insert has
\* been accepted by the SessionManager
InsertSucceeds ==
    /\ inv.op = "create"
    /\ inv.pc = "insert"
    /\ inv'.pc = "idle"
    /\ inv.id \in registry'

\* C12: a CreateConnection whose insert into the registry succeeds writes to
\* the wakeup endpoint of the CommandSource before it returns.  (Stated for
\* handlers dispatched after initialization.)
C12_InsertWakesCommandSource ==
    [][(InsertSucceeds /\ ~ inv.early) => wakeups' = wakeups + 1]_vars

\* the commands accepted so far, oldest first: answered, waiting for the
\* ResponseSink, on the transport, waiting for the Tab
InPipeline == ((delivered \o sinkQ) \o active) \o tabQ

\* the commands of session id in a sequence of commands
OfSession(q, id) == SelectSeq(q, LAMBDA c : c.sid = id)

\* the pipeline as init_thread_func wires it
Chain == {<<"command_source", "tab">>, <<"tab", "response_sink">>}

TctiInitialized ==
    initpc \notin {"none", "lock", "signal", "seed", "manager", "tcti"}

C15_ReplyAfterInsert ==
    (manager = "live" /\ ~ inv.early) => open \subseteq registry

\* signal_handler has run for a SIGINT / SIGTERM (a signal that arrives before
\* signal () has installed it ends the process instead)
SignalHandled == nSig > 0 /\ daemon # "killed"

\* C16: a SIGINT / SIGTERM that signal_handler has handled is not lost: from
\* then on main is never inside a running main loop with no quit requested,
\* whether the signal came during g_main_loop_run or before it.
C16_SignalNotLost ==
    (SignalHandled /\ daemon = "up") => ~ (mainpc = "loop" /\ loopRunning)

\* thread_start (s) has returned 0
Started(s) == stage[s] \notin {"null", "created"}

\* the positions at which init_thread_func holds init_mutex
InitHoldsGate ==
    initpc \in {"signal", "seed", "manager", "tcti", "create", "wire",
                "start_command_source", "start_tab", "start_response_sink",
                "unlock"}

\* C17: init_thread_func holds init_mutex from its lock to its last step and
\* never again after releasing it; when it has released it the PRNG is
\* seeded, the registry exists, both links are wired and the three stages are
\* started.  The stages are started in the order CommandSource, Tab,
\* ResponseSink, and none before both links are wired.
C17_GateOpenedLast ==
    /\ init_mutex = "init" <=> InitHoldsGate
    /\ initpc = "done"
          => (/\ seedSrc # "unseeded"
              /\ manager # "null"
              /\ links = Chain
              /\ \A s \in Stages : Started(s))
    /\ Started("tab") => Started("command_source")
    /\ Started("response_sink") => Started("tab")
    /\ Started("command_source") => links = Chain

\* C17 witness: initialization has just released the gate; a handler that was
\* waiting on it has not moved yet.
C17_Witness ==
    /\ initpc = "done"
    /\ init_mutex = "free"
    /\ daemon = "up"
    /\ inv.pc = "lock"
    /\ inv.early
    /\ \A s \in Stages : stage[s] = "started"

\* main is past g_thread_join (init_thread)
InTeardown ==
    mainpc \in {"unown", "cancel_command_source", "join_command_source",
                "cancel_tab", "join_tab", "cancel_response_sink",
                "join_response_sink", "unref_manager", "returned"}

\* C18: main tears the pipeline down only after init_thread_func has
\* returned, whenever the shutdown was requested: while main is in the
\* teardown, and whenever a stage is cancelled or joined, initialization is
\* over, and each stage main is about to cancel is one that was created and
\* started.
C18_TeardownAfterInit ==
    /\ InTeardown => initpc = "done"
    /\ \A s \in Stages : TornDown(s) => initpc = "done"
    /\ mainpc = "cancel_command_source" => stage["command_source"] = "started"
    /\ mainpc = "cancel_tab" => stage["tab"] = "started"
    /\ mainpc = "cancel_response_sink" => stage["response_sink"] = "started"

\* C18 witness: the shutdown was requested during initialization; main has
\* left the main loop and waits in g_thread_join while init_thread_func is
\* still wiring the pipeline.
C18_Witness ==
    /\ mainpc = "join_init"
    /\ initpc = "wire"
    /\ daemon = "up"
    /\ nSig = 1

\* a step of a Cancel or SetLocality handler
CancelOrSetLocalityStep ==
    /\ inv.op \in {"cancel", "set_locality"}
    /\ inv' # inv \/ daemon' # daemon

\* C19: no step of a Cancel or SetLocality handler, whether its id is known
\* or not, adds a session to the registry or removes one from it; the
\* sessions stay as they are, open endpoints included.
C19_RegistryUntouched ==
    [][CancelOrSetLocalityStep
       => (registry' = registry /\ manager' = manager /\ open' = open)]_vars

\* C19 witness: a Cancel on a session with no command outstanding has been
\* answered; the session is still in the registry with its endpoints open and
\* the CommandSource can accept a command from it.
C19_Witness ==
    /\ lastReply = [op |-> "cancel", id |-> lastReply.id, rc |-> "SUCCESS"]
    /\ inv.op = "none"
    /\ lastReply.id \in registry
    /\ lastReply.id \in open
    /\ nCmd = 0
    /\ stage["command_source"] = "started"
    /\ daemon = "up"

\* C20: a handler holds init_mutex only between its g_mutex_lock and the
\* g_mutex_unlock that follows it at once: never while it draws the id,
\* replies, inserts or looks a session up.  Once initialization has released
\* the gate, a handler that arrives at it finds it free.
C20_HandlersNeverHoldGate ==
    /\ init_mutex = "handler" <=> inv.pc = "unlock"
    /\ inv.pc \in {"rand", "reply", "insert", "lookup"} => init_mutex # "handler"
    /\ (inv.pc = "lock" /\ initpc = "done") => init_mutex = "free"

\* C20 witness: a CreateConnection dispatched after initialization has passed
\* the gate and replied and is about to insert, with the gate free.
C20_Witness ==
    /\ inv.op = "create"
    /\ inv.pc = "insert"
    /\ ~ inv.early
    /\ init_mutex = "free"
    /\ initpc = "done"
    /\ nReq = 2

\* seed_rand_data has returned 0: init_thread_func has gone past its check
SeedReturnedZero == initpc \notin {"none", "lock", "signal", "seed"}

\* C21: seed_rand_data returns 0 only when it has read a whole long from the
\* entropy source and seeded the PRNG from it; after any other outcome of
\* open or read, a short read and end of file included, it has returned
\* non-zero and the PRNG state is unseeded.
C21_SeedOnlyOnFullRead ==
    /\ SeedReturnedZero => seedSrc = "full"
    /\ ~ SeedReturnedZero => seedSrc = "unseeded"
====
